---- MODULE Spec2Model ----
(***************************************************************************)
(* Model of media_bridge_viewer: the thumbnail cache (MediaHandler), the   *)
(* remote bridge (RemoteMediaHandler / RemoteMediaViewer), the headless    *)
(* viewer (CLIMediaViewer) and the GUI viewer (MediaBridgeViewer).         *)
(*                                                                         *)
(* A path is a pair <<d, n>>: directory d, base name n.  Directory 0 is    *)
(* the session's scratch directory (RemoteMediaHandler.temp_dir); the      *)
(* directories 1..NumDirs are nested in a chain (d+1 lies inside d), so a  *)
(* recursive listing of d yields the files of d, d+1, ...                  *)
(***************************************************************************)
EXTENDS Integers, Sequences, FiniteSets, TLC

\* ------------------------------------------------------------------ bounds
NumDirs == 2
NumNames == 2
MaxDecodes == 3
MaxFrames == 20

Dirs == 1..NumDirs
Names == 1..NumNames
Files == Dirs \X Names
TempDir == 0

\* os.path.basename / os.path.join(temp_dir, filename)
basename(p) == p[2]
LocalPath(p) == <<TempDir, basename(p)>>

\* string order of two paths, as sorted() and sort(1) compare them
PathLess(p, q) == p[1] < q[1] \/ (p[1] = q[1] /\ p[2] < q[2])

\* ------------------------------------------------------------------ values
\* A thumbnail object (ImageTk.PhotoImage): id is its identity, src the file
\* whose content was decoded into it.  None is Python's None.
NoPath == <<0, 0>>
None == [id |-> 0, src |-> NoPath]
NotCalled == [id |-> -1, src |-> NoPath]
NewThumbnail(n, s) == [id |-> n, src |-> s]

VARIABLES
    disk,        \* local files that exist
    cache,       \* MediaHandler.cache: path -> thumbnail object
    decodes,     \* number of decoder invocations so far
    h_ret,       \* per path: what create_thumbnail last returned since the last clear
    h_last,      \* the handler call that ran last
    h_old,       \* per path: the thumbnail clear_cache last dropped for it
    scratch,     \* files under temp_dir: local path -> [src, partial, req, kind]
    r_reqs,      \* number of remote requests begun so far
    r_pc,        \* per calling thread: where its remote request stands
    r_cur,       \* per calling thread: the remote request it is running
    r_last,      \* per calling thread: the remote request that returned last
    rv_pc,       \* RemoteMediaViewer.load_directory: idle, loading, returned, raised
    rv_depth,    \* nesting depth of load_directory calls on the stack
    rv_listings, \* remote listings issued by the current load_directory call
    rv_first,    \* what the enumerator returned to the outermost call
    rv_dir,      \* RemoteMediaViewer.current_directory
    rv_files,    \* RemoteMediaViewer.media_files
    rv_recursive,\* recursive_var
    remote_fs,   \* the media files that exist on the remote host
    cli_dir,     \* CLIMediaViewer.current_directory
    cli_files,   \* CLIMediaViewer.media_files
    cli_sel,     \* CLIMediaViewer.selected_files
    cli_last,    \* the report of delete_selected, until another operation runs
    g_dir,       \* MediaBridgeViewer.current_directory
    g_files,     \* MediaBridgeViewer.media_files
    g_sel,       \* MediaBridgeViewer.selected_files
    g_recursive, \* recursive_var
    g_grid,      \* the file of each grid item, in creation order
    g_loaders,   \* the running load_files threads, oldest first: [pc, dir, result]
    g_workers,   \* the running pre-load worker threads, oldest first: [list, i]
    g_after,     \* callbacks queued with root.after, oldest first
    g_last,      \* the report of _delete_selected, until another handler runs
    p_list,      \* preload_thumbnails: the list filepaths of the call
    p_pc,        \* the pre-load worker: idle, loop, check, create, store, callback, done
    p_i,         \* entries of p_list the worker has completed
    p_stop,      \* MediaHandler.stop_loading
    p_calls,     \* the callback invocations so far, oldest first: <<i, n, filepath>>
    p_work,      \* the worker's create_thumbnail calls so far: [i, missing, decoded, none]
    p_ui,        \* create_thumbnail calls of the UI thread during the pre-load
    p_mark,      \* where the worker stood when stop_loading was set
    p_thumb,     \* the worker's local `thumbnail` inside create_thumbnail
    p_got,       \* what create_thumbnail returned, to either thread: [f, thumb, n]
    \* get_media_info, step by step
    i_pc,        \* "idle", "size" (before os.path.getsize), "probe" (before the try)
    i_f,         \* the path of the call in progress
    i_last,      \* the get_media_info call that ended last
    rv_sel,      \* RemoteMediaViewer.selected_files
    \* RemoteMediaViewer.close
    t_pc,        \* "open", "unlink" (inside shutil.rmtree), "stopping", "closed", "raised"
    t_dir,       \* the scratch directory temp_dir exists
    t_todo,      \* the entries rmtree listed and has not unlinked yet
    t_stop,      \* stop_loading of the remote handler is set
    \* get_files_in_directory on named entries
    e_fs,        \* the entries under the directory that is listed
    e_last,      \* the get_files_in_directory call that ran last
    x_last       \* the entry point or command that ran last, with its arguments

hVars == <<disk, cache, decodes, h_ret, h_last, h_old>>
rVars == <<scratch, r_reqs, r_pc, r_cur, r_last>>
rvVars == <<rv_pc, rv_depth, rv_listings, rv_first, rv_dir, rv_files, rv_recursive,
           remote_fs>>
cliVars == <<cli_dir, cli_files, cli_sel, cli_last>>
guiVars == <<g_dir, g_files, g_sel, g_recursive, g_grid, g_loaders, g_workers, g_after,
            g_last>>
pVars == <<p_list, p_pc, p_i, p_stop, p_calls, p_work, p_ui, p_mark, p_thumb, p_got>>
iVars == <<i_pc, i_f, i_last>>
sVars == <<rv_sel>>
tVars == <<t_pc, t_dir, t_todo, t_stop>>
eVars == <<e_fs, e_last>>
xVars == <<x_last>>
newVars == <<pVars, iVars, sVars, tVars, eVars, xVars>>
vars == <<hVars, rVars, rvVars, cliVars, guiVars, newVars>>

NoCall == [op |-> "none", f |-> NoPath, result |-> NotCalled, decoded |-> FALSE,
           prev |-> NotCalled, failed |-> FALSE, raised |-> FALSE, seeks |-> FALSE,
           fc |-> 0, target |-> 0, pre |-> << >>]

\* ------------------------------------------------------ MediaHandler (local)
\* is_video_file: names with an even number carry a video extension, the
\* others an image extension
IsVideoFile(p) == p[2] % 2 = 0

\* `if filepath in self.cache`
CacheHitNever(c, f) == FALSE
CacheHit(c, f) == f \in DOMAIN c

\* `self.cache[filepath] = thumbnail`
CacheStore(c, f, t) == (f :> t) @@ c

\* `if thumbnail:` before the store
StoresAlways(t) == TRUE
StoresThumbnail(t) == t # None

\* What the file at local path p holds: the path whose bytes it carries, or
\* NoPath when there is no such file.  A scratch file carries the bytes of the
\* remote file it was copied from.
FileContent(p) ==
    IF p[1] = TempDir
    THEN IF p \in DOMAIN scratch THEN scratch[p].src ELSE NoPath
    ELSE IF p \in disk THEN p ELSE NoPath

\* int(frame_count * 0.1): the tenth, cut towards zero
TenthOf(fc) == IF fc >= 0 THEN fc \div 10 ELSE -((-fc) \div 10)

\* `target_frame = max(1, int(frame_count * 0.1))`
SeekTargetUnclamped(fc) == TenthOf(fc)
SeekTarget(fc) == IF TenthOf(fc) > 1 THEN TenthOf(fc) ELSE 1

\* `ret, frame = cap.read()` after `cap.set(cv2.CAP_PROP_POS_FRAMES, target)`:
\* a frame comes back when the position is inside the video and the frame
\* decodes
FrameRead(fc, target, readable) == target < fc /\ readable

\* What the decoder meets in a file: din.opened (the capture handle opens),
\* din.fc (the frame count it reports), din.readable (the frame at the
\* position decodes), din.raises (the decoder or the image library raises).
\* _create_video_thumbnail: thumb says a thumbnail came back, raised that an
\* exception left the function, seeks / target the frame position it set.
VideoThumbnail(din) ==
    IF ~din.opened
    THEN [thumb |-> FALSE, raised |-> FALSE, seeks |-> FALSE, fc |-> 0, target |-> 0]
    ELSE LET target == SeekTarget(din.fc)
         IN IF ~FrameRead(din.fc, target, din.readable)
            THEN [thumb |-> FALSE, raised |-> FALSE, seeks |-> TRUE, fc |-> din.fc,
                  target |-> target]
            ELSE [thumb |-> ~din.raises, raised |-> din.raises, seeks |-> TRUE,
                  fc |-> din.fc, target |-> target]

\* _create_image_thumbnail: Image.open, convert, thumbnail, PhotoImage
ImageThumbnail(din) ==
    [thumb |-> ~din.raises, raised |-> din.raises, seeks |-> FALSE, fc |-> 0, target |-> 0]

\* the decoder create_thumbnail picks for file f
Decode(f, din) == IF IsVideoFile(f) THEN VideoThumbnail(din) ELSE ImageThumbnail(din)

\* `except Exception as e: print(...)` around the decoders: nothing raised in
\* them leaves create_thumbnail
Escapes(raised) == FALSE

\* the inputs the decoder can meet in file f
DecodeInputs(f) ==
    IF FileContent(f) = NoPath
    THEN {[opened |-> FALSE, fc |-> 0, readable |-> FALSE, raises |-> ~IsVideoFile(f)]}
    ELSE IF IsVideoFile(f)
    THEN [opened : BOOLEAN, fc : (-1)..MaxFrames, readable : BOOLEAN, raises : BOOLEAN]
    ELSE [opened : {TRUE}, fc : {0}, readable : {TRUE}, raises : BOOLEAN]

\* MediaHandler.create_thumbnail(p) run on cache c after n decoder
\* invocations.  content is FileContent(p); ok is the decoder's verdict on an
\* existing file (_create_video_thumbnail returning None, or Image.open
\* raising, make it FALSE); a missing file never decodes.
ThumbnailCall(c, n, p, content, ok) ==
    IF CacheHit(c, p)
    THEN [cache |-> c, decodes |-> n, result |-> c[p], decoded |-> FALSE]
    ELSE LET t == IF content # NoPath /\ ok THEN NewThumbnail(n + 1, content) ELSE None
         IN [cache |-> IF StoresThumbnail(t) THEN CacheStore(c, p, t) ELSE c,
             decodes |-> n + 1, result |-> t, decoded |-> TRUE]

\* a call of the local MediaHandler.create_thumbnail(f), the decoder meeting
\* din in the file
CreateThumbnail(f, din) ==
    /\ CacheHit(cache, f) \/ decodes < MaxDecodes
    /\ LET d == Decode(f, din)
           r == ThumbnailCall(cache, decodes, f, FileContent(f), d.thumb)
       IN /\ cache' = r.cache
          /\ decodes' = r.decodes
          /\ h_last' = [op |-> "create_thumbnail", f |-> f, result |-> r.result,
                        decoded |-> r.decoded, prev |-> h_ret[f],
                        failed |-> r.decoded /\ ~d.thumb,
                        raised |-> r.decoded /\ Escapes(d.raised),
                        seeks |-> r.decoded /\ d.seeks,
                        fc |-> IF r.decoded THEN d.fc ELSE 0,
                        target |-> IF r.decoded THEN d.target ELSE 0,
                        pre |-> cache]
          /\ h_ret' = [h_ret EXCEPT ![f] = r.result]
    /\ UNCHANGED <<disk, h_old>>

\* `self.cache.clear()`
CacheKept(c) == c
CacheCleared(c) == << >>

\* MediaHandler.clear_cache
ClearCache ==
    /\ cache' = CacheCleared(cache)
    /\ h_old' = [f \in Files |-> IF f \in DOMAIN cache THEN cache[f] ELSE h_old[f]]
    /\ h_ret' = [f \in Files |-> NotCalled]
    /\ h_last' = [NoCall EXCEPT !.op = "clear_cache"]
    /\ UNCHANGED <<disk, decodes>>

HandlerInit ==
    /\ cache = << >>
    /\ decodes = 0
    /\ h_ret = [f \in Files |-> NotCalled]
    /\ h_last = NoCall
    /\ h_old = [f \in Files |-> NotCalled]

\* MediaHandler.get_media_info -------------------------------------------
\* The "error" entry the try block leaves in the record ("" when it sets
\* none).  A video is probed through a capture handle: when the handle does
\* not open the block is skipped, and only a call on an open handle can raise.
\* An image is probed with Image.open, which raises on a file it cannot read.
ProbeError(p, opened, raises) ==
    IF IsVideoFile(p)
    THEN IF opened /\ raises THEN "decode" ELSE ""
    ELSE IF raises THEN "decode" ELSE ""

\* MediaHandler.get_media_info(p) on a file that stays in place during the
\* call: the returned record, reduced to whether the file was found and to
\* its "error" entry.  content is FileContent(p); ok is the decoder's verdict
\* (the handle opens, nothing raises).
NoInfo == [found |-> FALSE, error |-> "-"]
InfoCall(p, content, ok) ==
    IF content = NoPath THEN [found |-> FALSE, error |-> "File not found"]
    ELSE [found |-> TRUE, error |-> ProbeError(p, ok, ~ok)]

\* The call step by step, other processes removing files in between.
NoInfoCall == [op |-> "none", f |-> NoPath, found |-> FALSE, error |-> "-",
               raised |-> FALSE, probed |-> FALSE, opened |-> FALSE, present |-> FALSE]

\* `if not os.path.exists(filepath): return {"error": "File not found"}`
InfoBegin(f) ==
    /\ i_pc = "idle"
    /\ IF f \in disk
       THEN /\ i_pc' = "size"
            /\ i_f' = f
            /\ i_last' = NoInfoCall
       ELSE /\ i_last' = [NoInfoCall EXCEPT !.op = "get_media_info", !.f = f,
                                            !.error = "File not found"]
            /\ UNCHANGED <<i_pc, i_f>>
    /\ UNCHANGED disk

\* `"size": os.path.getsize(filepath)` while the record is built, before the
\* try: on a file that is gone the OSError leaves get_media_info
InfoSize ==
    /\ i_pc = "size"
    /\ IF i_f \in disk
       THEN /\ i_pc' = "probe"
            /\ UNCHANGED <<i_f, i_last>>
       ELSE /\ i_pc' = "idle"
            /\ i_f' = NoPath
            /\ i_last' = [NoInfoCall EXCEPT !.op = "get_media_info", !.f = i_f,
                                            !.raised = TRUE]
    /\ UNCHANGED disk

\* the try block and `return info`.  A file that is gone by now does not open
\* (video) or makes Image.open raise (image).
InfoProbe(opened, raises) ==
    /\ i_pc = "probe"
    /\ LET op == opened /\ i_f \in disk
           rs == IF IsVideoFile(i_f) THEN raises ELSE raises \/ i_f \notin disk
       IN i_last' = [op |-> "get_media_info", f |-> i_f, found |-> TRUE,
                     error |-> ProbeError(i_f, op, rs), raised |-> FALSE,
                     probed |-> TRUE, opened |-> op, present |-> i_f \in disk]
    /\ i_pc' = "idle"
    /\ i_f' = NoPath
    /\ UNCHANGED disk

\* another process removes a file
EnvRemove(f) ==
    /\ f \in disk
    /\ disk' = disk \ {f}
    /\ UNCHANGED iVars

InfoInit ==
    /\ i_pc = "idle"
    /\ i_f = NoPath
    /\ i_last = NoInfoCall

\* ------------------------------------------------ RemoteMediaHandler
\* The threads that call into the handler: the UI thread and the pre-load
\* worker thread started by preload_thumbnails.
Callers == {"ui", "worker"}
MaxRequests == 3

\* The UI thread asks for thumbnails (_update_thumbnail, _show_preview) and
\* for metadata (_show_preview); the worker's loop only calls create_thumbnail.
Kinds(c) == IF c = "ui" THEN {"thumb", "info"} ELSE {"thumb"}

NoRequest == [kind |-> "none", f |-> NoPath, req |-> 0, dl |-> "none",
              thumb |-> NotCalled, info |-> NoInfo, raised |-> FALSE, residue |-> FALSE]

\* scp writing local_path: the whole file, or a truncated one when the
\* transfer breaks off after it has started writing
ScratchWrite(s, p, f, partial, n, kind) ==
    (p :> [src |-> f, partial |-> partial, req |-> n, kind |-> kind]) @@ s

\* os.remove(local_path)
ScratchRemoveNothing(s, p) == s
ScratchRemove(s, p) == [q \in DOMAIN s \ {p} |-> s[q]]

\* a file written by request n is (still) in the scratch directory
Residue(s, n) == \E p \in DOMAIN s : s[p].req = n

\* the request of thread c returns: its record becomes the thread's last one
RemoteReturn(c, rec, s) ==
    /\ r_last' = [r_last EXCEPT ![c] = [rec EXCEPT !.residue = Residue(s, rec.req)]]
    /\ r_pc' = [r_pc EXCEPT ![c] = "idle"]
    /\ r_cur' = [r_cur EXCEPT ![c] = NoRequest]

\* RemoteMediaHandler.create_thumbnail / get_media_info, up to and including
\* `if not self._download_file(filepath, local_path): return ...`.
\* outcome: "ok" (exit status 0), "fail" (non-zero exit, timeout or error with
\* nothing written), "partial" (the same after scp wrote part of the file).
RemoteDownload(c, kind, f, outcome) ==
    /\ r_pc[c] = "idle"
    /\ r_reqs < MaxRequests
    /\ r_reqs' = r_reqs + 1
    /\ LET n == r_reqs + 1
           lp == LocalPath(f)
           rec == [NoRequest EXCEPT !.kind = kind, !.f = f, !.req = n]
       IN CASE outcome = "ok" ->
                 /\ f \in remote_fs
                 /\ scratch' = ScratchWrite(scratch, lp, f, FALSE, n, kind)
                 /\ r_cur' = [r_cur EXCEPT ![c] = [rec EXCEPT !.dl = "ok"]]
                 /\ r_pc' = [r_pc EXCEPT ![c] = "process"]
                 /\ UNCHANGED r_last
            [] outcome = "fail" ->
                 /\ scratch' = scratch
                 /\ RemoteReturn(c, [rec EXCEPT !.dl = "failed",
                                     !.thumb = IF kind = "thumb" THEN None ELSE NotCalled,
                                     !.info = IF kind = "info"
                                              THEN [found |-> FALSE, error |-> "Could not download file"]
                                              ELSE NoInfo], scratch')
            [] outcome = "partial" ->
                 /\ scratch' = ScratchWrite(scratch, lp, f, TRUE, n, kind)
                 /\ RemoteReturn(c, [rec EXCEPT !.dl = "failed",
                                     !.thumb = IF kind = "thumb" THEN None ELSE NotCalled,
                                     !.info = IF kind = "info"
                                              THEN [found |-> FALSE, error |-> "Could not download file"]
                                              ELSE NoInfo], scratch')
    /\ UNCHANGED <<disk, cache, decodes, h_ret, h_last, h_old>>

\* `thumbnail = super().create_thumbnail(local_path)` /
\* `info = super().get_media_info(local_path)`
RemoteProcess(c, ok) ==
    /\ r_pc[c] = "process"
    /\ LET lp == LocalPath(r_cur[c].f)
       IN IF r_cur[c].kind = "thumb"
          THEN /\ CacheHit(cache, lp) \/ decodes < MaxDecodes
               /\ LET r == ThumbnailCall(cache, decodes, lp, FileContent(lp), ok)
                  IN /\ cache' = r.cache
                     /\ decodes' = r.decodes
                     /\ r_cur' = [r_cur EXCEPT ![c].thumb = r.result]
          ELSE /\ r_cur' = [r_cur EXCEPT ![c].info = InfoCall(lp, FileContent(lp), ok)]
               /\ UNCHANGED <<cache, decodes>>
    /\ r_pc' = [r_pc EXCEPT ![c] = "cleanup"]
    /\ UNCHANGED <<disk, h_ret, h_last, h_old, scratch, r_reqs, r_last>>

\* finally: `if os.path.exists(local_path):`
RemoteCleanupCheck(c) ==
    /\ r_pc[c] = "cleanup"
    /\ IF LocalPath(r_cur[c].f) \in DOMAIN scratch
       THEN /\ r_pc' = [r_pc EXCEPT ![c] = "remove"]
            /\ UNCHANGED <<r_cur, r_last>>
       ELSE RemoteReturn(c, r_cur[c], scratch)
    /\ UNCHANGED <<hVars, scratch, r_reqs>>

\* finally: `os.remove(local_path)`, then the return.  When another thread
\* removed the file since the check, os.remove raises out of the request.
RemoteRemove(c) ==
    /\ r_pc[c] = "remove"
    /\ LET lp == LocalPath(r_cur[c].f)
       IN IF lp \in DOMAIN scratch
          THEN /\ scratch' = ScratchRemove(scratch, lp)
               /\ RemoteReturn(c, r_cur[c], scratch')
          ELSE /\ scratch' = scratch
               /\ RemoteReturn(c, [r_cur[c] EXCEPT !.raised = TRUE], scratch')
    /\ UNCHANGED <<hVars, r_reqs>>

\* RemoteMediaViewer._open_file_externally(f), on the UI thread: download to
\* local_path and, when the download succeeded, hand the file to the desktop's
\* opener.
OpenFileExternally(f, outcome) ==
    /\ r_pc["ui"] = "idle"
    /\ r_reqs < MaxRequests
    /\ outcome = "ok" => f \in remote_fs
    /\ r_reqs' = r_reqs + 1
    /\ LET n == r_reqs + 1
           lp == LocalPath(f)
           rec == [NoRequest EXCEPT !.kind = "open", !.f = f, !.req = n,
                                    !.dl = IF outcome = "ok" THEN "ok" ELSE "failed"]
       IN /\ scratch' = IF outcome = "fail" THEN scratch
                        ELSE ScratchWrite(scratch, lp, f, outcome = "partial", n, "open")
          /\ RemoteReturn("ui", rec, scratch')
    /\ UNCHANGED hVars

RemoteInit ==
    /\ scratch = << >>
    /\ r_reqs = 0
    /\ r_pc = [c \in Callers |-> "idle"]
    /\ r_cur = [c \in Callers |-> NoRequest]
    /\ r_last = [c \in Callers |-> NoRequest]

\* ------------------------------------------------ RemoteMediaViewer
NoDir == 0
RecursionLimit == 3

RECURSIVE SortedSeq(_)
\* sorted(files) / `| sort`
SortedSeq(S) ==
    IF S = {} THEN << >>
    ELSE LET m == CHOOSE p \in S : \A q \in S \ {p} : PathLess(p, q)
         IN <<m>> \o SortedSeq(S \ {m})

\* the files a listing of directory d covers
InDirectory(f, d, recursive) == IF recursive THEN f[1] >= d ELSE f[1] = d

\* RemoteMediaHandler.get_files_in_directory: one `find ... | sort` over ssh;
\* [] when _run_ssh_command returns None.
RemoteListing(d, recursive, sshOk) ==
    IF sshOk THEN SortedSeq({f \in remote_fs : InDirectory(f, d, recursive)}) ELSE << >>

\* MediaBridgeViewer._refresh_view, as reached from the remote load_directory:
\* `if self.current_directory: self.load_directory(self.current_directory)`
RefreshCallsLoad(d) == d # NoDir

\* the Recursive check button: recursive_var flips, then command=_refresh_view
RvToggleRecursive(sshOk) ==
    /\ rv_pc # "loading"
    /\ rv_recursive' = ~rv_recursive
    /\ IF RefreshCallsLoad(rv_dir)
       THEN /\ rv_files' = RemoteListing(rv_dir, rv_recursive', sshOk)
            /\ rv_first' = rv_files'
            /\ rv_listings' = 1
            /\ rv_depth' = 1
            /\ rv_pc' = "loading"
            /\ UNCHANGED rv_dir
       ELSE UNCHANGED <<rv_pc, rv_depth, rv_listings, rv_first, rv_dir, rv_files>>

\* the body of RemoteMediaViewer.load_directory up to the _refresh_view call
RvLoadBody(d, sshOk) ==
    /\ rv_dir' = d
    /\ rv_files' = RemoteListing(d, rv_recursive, sshOk)
    /\ rv_listings' = rv_listings + 1

\* a caller invokes RemoteMediaViewer.load_directory(d); directory NoDir is ""
RvLoadDirectory(d, sshOk) ==
    /\ rv_pc # "loading"
    /\ rv_dir' = d
    /\ rv_files' = RemoteListing(d, rv_recursive, sshOk)
    /\ rv_first' = rv_files'
    /\ rv_listings' = 1
    /\ rv_depth' = 1
    /\ rv_pc' = IF RefreshCallsLoad(d) THEN "loading" ELSE "returned"
    /\ UNCHANGED rv_recursive

\* _refresh_view calls load_directory(self.current_directory) again, one
\* frame deeper
RvRecurse(sshOk) ==
    /\ rv_pc = "loading"
    /\ rv_depth < RecursionLimit
    /\ rv_depth' = rv_depth + 1
    /\ RvLoadBody(rv_dir, sshOk)
    /\ rv_pc' = IF RefreshCallsLoad(rv_dir) THEN "loading" ELSE "returned"
    /\ UNCHANGED <<rv_first, rv_recursive>>

\* the interpreter's recursion limit is reached: RecursionError unwinds every
\* frame and leaves the outermost load_directory
RvRecursionError ==
    /\ rv_pc = "loading"
    /\ rv_depth = RecursionLimit
    /\ rv_pc' = "raised"
    /\ rv_depth' = 0
    /\ UNCHANGED <<rv_listings, rv_first, rv_dir, rv_files, rv_recursive>>

\* MediaBridgeViewer._select_all, inherited by the remote viewer:
\* `self.selected_files = set(self.media_files)`
RvSelectAll ==
    /\ rv_pc # "loading"
    /\ rv_sel' = {rv_files[i] : i \in 1..Len(rv_files)}
    /\ rv_pc' = "idle"
    /\ UNCHANGED <<rv_depth, rv_listings, rv_first, rv_dir, rv_files, rv_recursive>>

RvVarsInit ==
    /\ rv_pc = "idle"
    /\ rv_depth = 0
    /\ rv_listings = 0
    /\ rv_first = << >>
    /\ rv_dir = NoDir
    /\ rv_files = << >>
    /\ rv_recursive = FALSE
    /\ rv_sel = {}

RemoteViewerInit ==
    /\ RvVarsInit
    /\ remote_fs = Files

\* ------------------------------------------------ CLIMediaViewer
\* os.path.exists(directory): the directories 1..NumDirs exist, no other does
DirExistsAlways(d) == TRUE
DirExists(d) == d \in Dirs

\* MediaHandler.get_files_in_directory: os.walk or os.listdir, filtered by
\* is_supported_file, then sorted(files)
LocalListing(d, recursive) == SortedSeq({f \in disk : InDirectory(f, d, recursive)})

SeqToSet(q) == {q[i] : i \in 1..Len(q)}

\* [f for f in q if f in S]
SeqFilterKeepsAll(q, S) == q
RECURSIVE SeqFilter(_, _)
SeqFilter(q, S) ==
    IF q = << >> THEN << >>
    ELSE (IF Head(q) \in S THEN <<Head(q)>> ELSE << >>) \o SeqFilter(Tail(q), S)

RECURSIVE ListRemove(_, _)
\* list.remove(x): drops the first occurrence (x is in q)
ListRemove(q, x) ==
    IF Head(q) = x THEN Tail(q) ELSE <<Head(q)>> \o ListRemove(Tail(q), x)

CliNoOp == [op |-> "none", count |-> 0, deleted |-> 0, removable |-> {},
            pre_files |-> << >>, pre_sel |-> {}, pre_disk |-> {}]

\* CLIMediaViewer.load_directory(directory, recursive)
CliLoadDirectory(d, recursive) ==
    /\ IF ~DirExists(d)
       THEN UNCHANGED <<cli_dir, cli_files>>
       ELSE /\ cli_dir' = d
            /\ cli_files' = LocalListing(d, recursive)
    /\ cli_last' = [CliNoOp EXCEPT !.op = IF DirExists(d) THEN "load" ELSE "load_missing"]
    /\ UNCHANGED <<cli_sel, disk>>

RECURSIVE SelectLoop(_, _, _)
\* the loop of select_files over the parsed numbers
SelectLoop(numbers, files, sel) ==
    IF numbers = << >> THEN sel
    ELSE LET num == Head(numbers)
         IN SelectLoop(Tail(numbers), files,
                       IF 1 <= num /\ num <= Len(files) THEN sel \cup {files[num]} ELSE sel)

RECURSIVE DeselectLoop(_, _, _)
\* the loop of deselect_files over the parsed numbers
DeselectLoop(numbers, files, sel) ==
    IF numbers = << >> THEN sel
    ELSE LET num == Head(numbers)
         IN DeselectLoop(Tail(numbers), files,
                         IF 1 <= num /\ num <= Len(files) THEN sel \ {files[num]} ELSE sel)

\* CLIMediaViewer.select_files(numbers)
CliSelectFiles(numbers) ==
    /\ cli_sel' = SelectLoop(numbers, cli_files, cli_sel)
    /\ cli_last' = CliNoOp
    /\ UNCHANGED <<cli_dir, cli_files, disk>>

\* CLIMediaViewer.deselect_files(numbers)
CliDeselectFiles(numbers) ==
    /\ cli_sel' = DeselectLoop(numbers, cli_files, cli_sel)
    /\ cli_last' = CliNoOp
    /\ UNCHANGED <<cli_dir, cli_files, disk>>

\* run_interactive, command 'a': self.selected_files = set(self.media_files)
CliSelectAll ==
    /\ cli_sel' = SeqToSet(cli_files)
    /\ cli_last' = CliNoOp
    /\ UNCHANGED <<cli_dir, cli_files, disk>>

\* run_interactive, command 'c': self.selected_files.clear()
CliClear ==
    /\ cli_sel' = {}
    /\ cli_last' = CliNoOp
    /\ UNCHANGED <<cli_dir, cli_files, disk>>

\* CLIMediaViewer.keep_selected
CliKeepSelected ==
    /\ IF cli_sel = {}
       THEN UNCHANGED <<cli_files, cli_sel>>
       ELSE /\ cli_files' = SeqFilter(cli_files, cli_sel)
            /\ cli_sel' = {}
    /\ cli_last' = [CliNoOp EXCEPT !.op = "keep", !.pre_files = cli_files, !.pre_sel = cli_sel]
    /\ UNCHANGED <<cli_dir, disk>>

\* os.remove(f) succeeds when the file exists and nothing (permissions, a
\* lock) stands in the way
CanRemove(f, dsk, locked) == f \in dsk /\ f \notin locked

\* One pass of the body of delete_selected's loop, for file f, on the state
\* st = [files, sel, disk, deleted].  A failing os.remove, and a failing
\* media_files.remove after a successful os.remove, both land in the except
\* clause, which skips the rest of the body.
DeleteStep(st, f, locked) ==
    IF ~CanRemove(f, st.disk, locked) THEN st
    ELSE IF f \notin SeqToSet(st.files)
    THEN [st EXCEPT !.disk = st.disk \ {f}, !.deleted = st.deleted + 1]
    ELSE [files |-> ListRemove(st.files, f), sel |-> st.sel \ {f},
          disk |-> st.disk \ {f}, deleted |-> st.deleted + 1]

RECURSIVE DeleteLoop(_, _, _)
\* `for filepath in list(self.selected_files):`
DeleteLoop(todo, st, locked) ==
    IF todo = << >> THEN st
    ELSE DeleteLoop(Tail(todo), DeleteStep(st, Head(todo), locked), locked)

\* CLIMediaViewer.delete_selected; confirm is the answer to the prompt
CliDeleteSelected(confirm, locked) ==
    /\ IF cli_sel = {} \/ ~confirm
       THEN /\ cli_last' = CliNoOp
            /\ UNCHANGED <<cli_files, cli_sel, disk>>
       ELSE LET st == DeleteLoop(SortedSeq(cli_sel),
                                 [files |-> cli_files, sel |-> cli_sel, disk |-> disk,
                                  deleted |-> 0], locked)
            IN /\ cli_files' = st.files
               /\ cli_sel' = st.sel
               /\ disk' = st.disk
               /\ cli_last' = [op |-> "delete", count |-> Cardinality(cli_sel),
                               deleted |-> st.deleted,
                               removable |-> {f \in cli_sel : CanRemove(f, disk, locked)},
                               pre_files |-> cli_files, pre_sel |-> cli_sel,
                               pre_disk |-> disk]
    /\ UNCHANGED cli_dir

CliInit ==
    /\ cli_dir = NoDir
    /\ cli_files = << >>
    /\ cli_sel = {}
    /\ cli_last = CliNoOp

\* ------------------------------------------------ MediaBridgeViewer
MaxLoaders == 2
MaxWorkers == 2
MaxAfter == 1

GuiNoOp == [op |-> "none", count |-> 0, deleted |-> 0, removable |-> {},
            pre_files |-> << >>, pre_sel |-> {}, pre_disk |-> {}]

\* q without its i-th element: thread i has finished
SeqDrop(q, i) == SubSeq(q, 1, i - 1) \o SubSeq(q, i + 1, Len(q))

\* `thread = threading.Thread(target=load_files, daemon=True); thread.start()`:
\* a new thread each time, whatever threads are still running
StartLoader(th, d) == Append(th, [pc |-> "list", dir |-> d, result |-> << >>])

\* MediaHandler.preload_thumbnails(filepaths, callback): starts a worker
\* thread over filepaths, whatever workers are still running
StartWorker(th, files) == Append(th, [list |-> files, i |-> 0])

\* `self.selected_files.clear()` in load_directory
LoadClearsSelection(sel) == {}

\* MediaBridgeViewer.load_directory(d), the part that runs on the UI thread
LoadDirectory(d) ==
    IF ~DirExists(d)
    THEN UNCHANGED <<g_dir, g_sel, g_grid, g_loaders>>
    ELSE /\ Len(g_loaders) < MaxLoaders
         /\ g_dir' = d
         /\ g_sel' = LoadClearsSelection(g_sel)
         /\ g_grid' = << >>
         /\ g_loaders' = StartLoader(g_loaders, d)

\* MediaBridgeViewer._refresh_view
RefreshView ==
    IF g_dir # NoDir THEN LoadDirectory(g_dir)
    ELSE UNCHANGED <<g_dir, g_sel, g_grid, g_loaders>>

\* MediaBridgeViewer._populate_grid on the list files, the grid being grid:
\* one more grid item per file, then _load_thumbnails starts a pre-load worker
\* over the list
PopulateGrid(grid, files) ==
    IF files = << >>
    THEN g_grid' = grid /\ UNCHANGED g_workers
    ELSE /\ Len(g_workers) < MaxWorkers
         /\ g_grid' = grid \o files
         /\ g_workers' = StartWorker(g_workers, files)

\* load_directory called by _browse_folder or by the embedding program
GuiLoadDirectory(d) ==
    /\ LoadDirectory(d)
    /\ g_last' = [GuiNoOp EXCEPT !.op = IF DirExists(d) THEN "load" ELSE "load_missing"]
    /\ UNCHANGED <<g_files, g_recursive, g_workers, g_after, hVars>>

\* <F5>, and _update_grid_columns with a column count in 1..8 (grid_columns
\* is layout only)
GuiRefresh ==
    /\ RefreshView
    /\ g_last' = IF g_dir # NoDir /\ DirExists(g_dir)
                 THEN [GuiNoOp EXCEPT !.op = "load"] ELSE GuiNoOp
    /\ UNCHANGED <<g_files, g_recursive, g_workers, g_after, hVars>>

\* the Recursive check button: the variable flips, then command=_refresh_view
GuiToggleRecursive ==
    /\ g_recursive' = ~g_recursive
    /\ RefreshView
    /\ g_last' = IF g_dir # NoDir /\ DirExists(g_dir)
                 THEN [GuiNoOp EXCEPT !.op = "load"] ELSE GuiNoOp
    /\ UNCHANGED <<g_files, g_workers, g_after, hVars>>

\* load_files, first half: `recursive = self.recursive_var.get()` and the
\* directory listing
LoaderList(t) ==
    /\ g_loaders[t].pc = "list"
    /\ g_loaders' = [g_loaders EXCEPT ![t].pc = "assign",
                                      ![t].result = LocalListing(g_loaders[t].dir, g_recursive)]
    /\ UNCHANGED <<g_dir, g_files, g_sel, g_recursive, g_grid, g_workers, g_after, g_last,
                   hVars>>

\* load_files, second half: `self.media_files = ...`, then
\* `self.root.after(0, self._populate_grid)`; the thread ends
LoaderAssign(t) ==
    /\ g_loaders[t].pc = "assign"
    /\ Len(g_after) < MaxAfter
    /\ g_files' = g_loaders[t].result
    /\ g_after' = Append(g_after, [ev |-> "populate", f |-> NoPath])
    /\ g_loaders' = SeqDrop(g_loaders, t)
    /\ UNCHANGED <<g_dir, g_sel, g_recursive, g_grid, g_workers, g_last, hVars>>

\* One iteration of the loop of preload_thumbnails.worker (stop_loading is
\* not set while the window is open): create the thumbnail when the cache has
\* none, then progress_callback queues _update_thumbnail(filepath).  The
\* thread ends after the last entry.
WorkerStep(w, ok) ==
    /\ Len(g_after) < MaxAfter
    /\ LET i == g_workers[w].i + 1
           f == g_workers[w].list[i]
       IN /\ IF CacheHit(cache, f)
             THEN UNCHANGED <<cache, decodes>>
             ELSE /\ decodes < MaxDecodes
                  /\ LET r == ThumbnailCall(cache, decodes, f, FileContent(f), ok)
                     IN cache' = r.cache /\ decodes' = r.decodes
          /\ g_after' = Append(g_after, [ev |-> "thumb", f |-> f])
          /\ g_workers' = IF i = Len(g_workers[w].list) THEN SeqDrop(g_workers, w)
                          ELSE [g_workers EXCEPT ![w].i = i]
    /\ UNCHANGED <<disk, h_ret, h_last, h_old, g_dir, g_files, g_sel, g_recursive, g_grid,
                   g_loaders, g_last>>

\* the event loop runs the oldest queued callback: _populate_grid
AfterPopulate ==
    /\ g_after # << >> /\ Head(g_after).ev = "populate"
    /\ g_after' = Tail(g_after)
    /\ PopulateGrid(g_grid, g_files)
    /\ UNCHANGED <<g_dir, g_files, g_sel, g_recursive, g_loaders, g_last, hVars>>

\* the event loop runs the oldest queued callback: _update_thumbnail(f)
AfterUpdateThumbnail(ok) ==
    /\ g_after # << >> /\ Head(g_after).ev = "thumb"
    /\ g_after' = Tail(g_after)
    /\ LET f == Head(g_after).f
       IN /\ CacheHit(cache, f) \/ decodes < MaxDecodes
          /\ LET r == ThumbnailCall(cache, decodes, f, FileContent(f), ok)
             IN cache' = r.cache /\ decodes' = r.decodes
    /\ UNCHANGED <<disk, h_ret, h_last, h_old, g_dir, g_files, g_sel, g_recursive, g_grid,
                   g_loaders, g_workers, g_last>>

\* MediaBridgeViewer._toggle_selection, from the check box of a grid item
GuiToggleSelection(f, selected) ==
    /\ f \in SeqToSet(g_grid)
    /\ g_sel' = IF selected THEN g_sel \cup {f} ELSE g_sel \ {f}
    /\ g_last' = GuiNoOp
    /\ UNCHANGED <<g_dir, g_files, g_recursive, g_grid, g_loaders, g_workers, g_after, hVars>>

\* MediaBridgeViewer._select_all (button, <Control-a>)
GuiSelectAll ==
    /\ g_sel' = SeqToSet(g_files)
    /\ g_last' = GuiNoOp
    /\ UNCHANGED <<g_dir, g_files, g_recursive, g_grid, g_loaders, g_workers, g_after, hVars>>

\* MediaBridgeViewer._clear_selection (button, <Control-d>)
GuiClearSelection ==
    /\ g_sel' = {}
    /\ g_last' = GuiNoOp
    /\ UNCHANGED <<g_dir, g_files, g_recursive, g_grid, g_loaders, g_workers, g_after, hVars>>

\* MediaBridgeViewer._keep_selected
GuiKeepSelected ==
    /\ IF g_sel = {}
       THEN UNCHANGED <<g_files, g_sel, g_grid, g_workers>>
       ELSE /\ g_files' = SeqFilter(g_files, g_sel)
            /\ g_sel' = {}
            /\ PopulateGrid(<< >>, g_files')
    /\ g_last' = [GuiNoOp EXCEPT !.op = "keep", !.pre_files = g_files, !.pre_sel = g_sel]
    /\ UNCHANGED <<g_dir, g_recursive, g_loaders, g_after, hVars>>

\* MediaBridgeViewer._delete_selected; confirm is the answer to askyesno.
\* The loop calls os.remove on every selected file and counts the successes;
\* then the report, then _refresh_view.
GuiDeleteSelected(confirm, locked) ==
    /\ IF g_sel = {} \/ ~confirm
       THEN /\ g_last' = GuiNoOp
            /\ UNCHANGED <<disk, g_dir, g_sel, g_grid, g_loaders>>
       ELSE LET gone == {f \in g_sel : CanRemove(f, disk, locked)}
            IN /\ disk' = disk \ gone
               /\ g_last' = [op |-> "delete", count |-> Cardinality(g_sel),
                             deleted |-> Cardinality(gone),
                             removable |-> gone,
                             pre_files |-> g_files, pre_sel |-> g_sel, pre_disk |-> disk]
               /\ RefreshView
    /\ UNCHANGED <<cache, decodes, h_ret, h_last, h_old, g_files, g_recursive, g_workers, g_after>>

GuiInit ==
    /\ g_dir = NoDir
    /\ g_files = << >>
    /\ g_sel = {}
    /\ g_recursive = FALSE
    /\ g_grid = << >>
    /\ g_loaders = << >>
    /\ g_workers = << >>
    /\ g_after = << >>
    /\ g_last = GuiNoOp

\* ------------------------------------ MediaHandler.preload_thumbnails
MaxList == 2
MaxUiCalls == 2

\* the lists a caller passes: up to MaxList identifiers, repeats allowed
PreloadLists == UNION {[1..n -> Files] : n \in 0..MaxList}

NoMark == [set |-> FALSE, i |-> 0, busy |-> FALSE]

\* `if self.stop_loading.is_set(): break`
StopIgnored(flag) == FALSE
StopRequested(flag) == flag

\* `callback(i + 1, len(filepaths), filepath)`, i counting the entries done
CallbackArgsZeroBased(i, n, f) == <<i, n, f>>
CallbackArgs(i, n, f) == <<i + 1, n, f>>

\* preload_thumbnails(filepaths, callback): the worker thread is started
PreloadStart(list) ==
    /\ p_pc = "idle"
    /\ p_list' = list
    /\ p_pc' = "loop"
    /\ UNCHANGED <<p_i, p_stop, p_calls, p_work, p_ui, p_mark, p_thumb, p_got, hVars>>

\* worker: `for i, filepath in enumerate(filepaths):` and the look at
\* stop_loading that opens each pass
PreloadLoop ==
    /\ p_pc = "loop"
    /\ p_pc' = IF p_i = Len(p_list) \/ StopRequested(p_stop) THEN "done" ELSE "check"
    /\ UNCHANGED <<p_list, p_i, p_stop, p_calls, p_work, p_ui, p_mark, p_thumb, p_got, hVars>>

\* worker: `if filepath not in self.cache:`
PreloadCheck ==
    /\ p_pc = "check"
    /\ p_pc' = IF CacheHit(cache, p_list[p_i + 1]) THEN "callback" ELSE "create"
    /\ UNCHANGED <<p_list, p_i, p_stop, p_calls, p_work, p_ui, p_mark, p_thumb, p_got, hVars>>

NoThumb == [result |-> None, decoded |-> FALSE, missing |-> FALSE, n |-> 0]

\* the number of the decoder run of a create_thumbnail call, 0 for a cache hit
DecodeRun(r) == IF r.decoded THEN r.decodes ELSE 0

\* one return of create_thumbnail(f): the object returned and the decoder run
\* that made it
Fetched(f, thumb, n) == [f |-> f, thumb |-> thumb, n |-> n]

\* worker: `self.create_thumbnail(filepath)`, from its look at the cache to
\* the decoder's return; the thumbnail is in the local variable, not yet in
\* the cache
PreloadCreate(ok) ==
    /\ p_pc = "create"
    /\ LET f == p_list[p_i + 1]
           r == ThumbnailCall(cache, decodes, f, FileContent(f), ok)
       IN /\ decodes' = r.decodes
          /\ p_thumb' = [result |-> r.result, decoded |-> r.decoded,
                         missing |-> ~CacheHit(cache, f), n |-> DecodeRun(r)]
    /\ p_pc' = "store"
    /\ UNCHANGED <<p_list, p_i, p_stop, p_calls, p_work, p_ui, p_mark, p_got, disk, cache,
                   h_ret, h_last, h_old>>

\* worker, still inside create_thumbnail: `if thumbnail:
\* self.cache[filepath] = thumbnail`, and the return
PreloadStore ==
    /\ p_pc = "store"
    /\ LET f == p_list[p_i + 1]
       IN /\ cache' = IF p_thumb.decoded /\ StoresThumbnail(p_thumb.result)
                      THEN CacheStore(cache, f, p_thumb.result)
                      ELSE cache
          /\ p_work' = Append(p_work, [i |-> p_i + 1, missing |-> p_thumb.missing,
                                       decoded |-> p_thumb.decoded,
                                       none |-> p_thumb.result = None])
          /\ p_got' = p_got \cup {Fetched(f, p_thumb.result, p_thumb.n)}
    /\ p_thumb' = NoThumb
    /\ p_pc' = "callback"
    /\ UNCHANGED <<p_list, p_i, p_stop, p_calls, p_ui, p_mark, disk, decodes, h_ret, h_last,
                   h_old>>

\* worker: `if callback: callback(i + 1, len(filepaths), filepath)`; the pass
\* is over
PreloadCallback ==
    /\ p_pc = "callback"
    /\ p_calls' = Append(p_calls, CallbackArgs(p_i, Len(p_list), p_list[p_i + 1]))
    /\ p_i' = p_i + 1
    /\ p_pc' = "loop"
    /\ UNCHANGED <<p_list, p_stop, p_work, p_ui, p_mark, p_thumb, p_got, hVars>>

\* the steps of the worker thread
PreloadWorker ==
    \/ PreloadLoop
    \/ PreloadCheck
    \/ \E ok \in BOOLEAN : PreloadCreate(ok)
    \/ PreloadStore
    \/ PreloadCallback

\* the UI thread calls create_thumbnail(f) while the worker runs
\* (_update_thumbnail, _show_preview)
PreloadUiFetch(f, ok) ==
    /\ p_ui < MaxUiCalls
    /\ p_ui' = p_ui + 1
    /\ LET r == ThumbnailCall(cache, decodes, f, FileContent(f), ok)
       IN /\ cache' = r.cache
          /\ decodes' = r.decodes
          /\ p_got' = p_got \cup {Fetched(f, r.result, DecodeRun(r))}
    /\ UNCHANGED <<p_list, p_pc, p_i, p_stop, p_calls, p_work, p_mark, p_thumb, disk, h_ret,
                   h_last, h_old>>

\* MediaBridgeViewer.close: `self.media_handler.stop_loading.set()`
PreloadSetStop ==
    /\ ~p_stop
    /\ p_stop' = TRUE
    /\ p_mark' = [set |-> TRUE, i |-> p_i, busy |-> p_pc \in {"check", "create", "store", "callback"}]
    /\ UNCHANGED <<p_list, p_pc, p_i, p_calls, p_work, p_ui, p_thumb, p_got, hVars>>

PreloadInit ==
    /\ p_list = << >>
    /\ p_pc = "idle"
    /\ p_i = 0
    /\ p_stop = FALSE
    /\ p_calls = << >>
    /\ p_work = << >>
    /\ p_ui = 0
    /\ p_mark = NoMark
    /\ p_thumb = NoThumb
    /\ p_got = {}

\* ------------------------------------------- RemoteMediaViewer.close
\* close runs `self.remote_handler.cleanup()` and then `super().close()`,
\* which sets stop_loading; the pre-load worker is neither stopped before the
\* cleanup nor waited for.

\* RemoteMediaHandler.cleanup: `if os.path.exists(self.temp_dir):
\* shutil.rmtree(self.temp_dir)`; rmtree starts by listing the directory
CloseBegin ==
    /\ t_pc = "open"
    /\ IF t_dir
       THEN /\ t_pc' = "unlink"
            /\ t_todo' = DOMAIN scratch
       ELSE /\ t_pc' = "stopping"
            /\ UNCHANGED t_todo
    /\ UNCHANGED <<t_dir, t_stop, scratch>>

\* rmtree unlinks one listed entry.  An entry the worker removed since the
\* listing makes the unlink fail with FileNotFoundError, which rmtree passes
\* on or ignores, depending on the interpreter's version.
CloseUnlink(p, ignores) ==
    /\ t_pc = "unlink"
    /\ p \in t_todo
    /\ IF p \in DOMAIN scratch
       THEN /\ scratch' = ScratchRemove(scratch, p)
            /\ t_todo' = t_todo \ {p}
            /\ UNCHANGED t_pc
       ELSE /\ UNCHANGED scratch
            /\ IF ignores
               THEN t_todo' = t_todo \ {p} /\ UNCHANGED t_pc
               ELSE t_pc' = "raised" /\ UNCHANGED t_todo
    /\ UNCHANGED <<t_dir, t_stop>>

\* rmtree removes the directory itself; os.rmdir fails with OSError on a
\* directory that holds a file written since the listing, and the error
\* leaves cleanup and close before stop_loading is set
CloseRmdir ==
    /\ t_pc = "unlink"
    /\ t_todo = {}
    /\ IF DOMAIN scratch = {}
       THEN t_dir' = FALSE /\ t_pc' = "stopping"
       ELSE t_pc' = "raised" /\ UNCHANGED t_dir
    /\ UNCHANGED <<t_todo, t_stop, scratch>>

\* MediaBridgeViewer.close: `self.media_handler.stop_loading.set()`, then
\* root.quit() and root.destroy()
CloseStop ==
    /\ t_pc = "stopping"
    /\ t_stop' = TRUE
    /\ t_pc' = "closed"
    /\ UNCHANGED <<t_dir, t_todo, scratch>>

\* the pre-load worker takes its next entry (stop_loading is not set) and
\* runs the download; scp writes its file only into an existing directory
CloseWorkerDownload(f, outcome) ==
    /\ ~t_stop
    /\ outcome # "fail" => t_dir
    /\ RemoteDownload("worker", "thumb", f, outcome)
    /\ UNCHANGED tVars

\* a double click before the window is closed
CloseOpenFile(f, outcome) ==
    /\ t_pc = "open"
    /\ OpenFileExternally(f, outcome)
    /\ UNCHANGED tVars

CloseInit ==
    /\ t_pc = "open"
    /\ t_dir = TRUE
    /\ t_todo = {}
    /\ t_stop = FALSE

\* --------------------------- get_files_in_directory, local and remote
\* The entries under the listed directory D, by name.  An entry lies in D
\* itself or in D's sub-directory "s" (sub); its name is stem "." ext; it is a
\* regular file or a directory.
MaxEntries == 2

EntryPaths == [sub : BOOLEAN, stem : {"B", "a"}, ext : {"JPG", "jpg", "mp4", "txt"}]
Entries == [path : EntryPaths, kind : {"file", "dir"}]

\* the file systems of at most MaxEntries entries, one entry per path
FileSystems ==
    {S \in UNION {{{g[i] : i \in 1..n} : g \in [1..n -> Entries]} : n \in 0..MaxEntries} :
        \A x, y \in S : x.path = y.path => x = y}

\* str.lower() on an extension
Lower(ext) == IF ext = "JPG" THEN "jpg" ELSE ext

\* SUPPORTED_IMAGE_FORMATS and SUPPORTED_VIDEO_FORMATS, one suffix of each
AllowList == {"jpg", "mp4"}

\* MediaHandler.is_supported_file
IsSupportedFile(p) == Lower(p.ext) \in AllowList

\* the `-iname '*.jpg' -o ... -o -iname '*.webm'` tests of the find command
INameMatches(p) == Lower(p.ext) \in AllowList

\* The position of a path in the order of its characters' code points, which
\* Python's sorted() and `sort` under the C locale use: "B" < "a" < "s" and
\* "JPG" < "jpg" < "mp4" < "txt".
CodePointOrder ==
    [p \in EntryPaths |->
        (IF p.sub THEN 100 ELSE 0)
        + (IF p.stem = "B" THEN 10 ELSE 20)
        + (CASE p.ext = "JPG" -> 1 [] p.ext = "jpg" -> 2 [] p.ext = "mp4" -> 3
             [] OTHER -> 4)]

\* The position of a path in the collation order of a locale such as
\* en_US.UTF-8, which `sort` uses on a host with that locale: letters compare
\* without regard to case first and lower case goes first among equals, so
\* "a" < "B" < "s" and "jpg" < "JPG" < "mp4" < "txt".
LocaleOrder ==
    [p \in EntryPaths |->
        (IF p.sub THEN 100 ELSE 0)
        + (IF p.stem = "a" THEN 10 ELSE 20)
        + (CASE p.ext = "jpg" -> 1 [] p.ext = "JPG" -> 2 [] p.ext = "mp4" -> 3
             [] OTHER -> 4)]

RECURSIVE SortedBy(_, _)
\* the paths of S as a sequence that increases in order key
SortedBy(S, key) ==
    IF S = {} THEN << >>
    ELSE LET m == CHOOSE p \in S : \A q \in S \ {p} : key[p] < key[q]
         IN <<m>> \o SortedBy(S \ {m}, key)

\* MediaHandler.get_files_in_directory: os.walk's filenames (recursive) or
\* os.listdir's names that os.path.isfile accepts, filtered by
\* is_supported_file, then `sorted(files)`
LocalFiles(fs, recursive) ==
    LET walked == IF recursive
                  THEN {x \in fs : x.kind # "dir"}
                  ELSE {x \in fs : ~x.path.sub /\ x.kind = "file"}
    IN SortedBy({x.path : x \in {y \in walked : IsSupportedFile(y.path)}}, CodePointOrder)

\* `find 'D' -type f \( -iname ... \) [-maxdepth 1]`
FindOutput(fs, recursive) ==
    {x.path : x \in {y \in fs : /\ y.kind = "file"
                                /\ INameMatches(y.path)
                                /\ (recursive \/ ~y.path.sub)}}

\* `| sort` on the remote host, whose locale is locale
SortCommand(S, locale) ==
    SortedBy(S, IF locale = "C" THEN CodePointOrder ELSE LocaleOrder)

\* RemoteMediaHandler.get_files_in_directory: `if not result: return []` when
\* _run_ssh_command returned None, else the lines of the output
RemoteFiles(fs, recursive, sshOk, locale) ==
    IF sshOk THEN SortCommand(FindOutput(fs, recursive), locale) ELSE << >>

NoEnum == [who |-> "none", recursive |-> FALSE, ran |-> FALSE, out |-> << >>]

\* a call of the local get_files_in_directory(D, recursive)
EnumLocal(recursive) ==
    /\ e_last' = [who |-> "local", recursive |-> recursive, ran |-> TRUE,
                  out |-> LocalFiles(e_fs, recursive)]
    /\ UNCHANGED e_fs

\* a call of the remote get_files_in_directory(D, recursive)
EnumRemote(recursive, sshOk, locale) ==
    /\ e_last' = [who |-> "remote", recursive |-> recursive, ran |-> sshOk,
                  out |-> RemoteFiles(e_fs, recursive, sshOk, locale)]
    /\ UNCHANGED e_fs

EnumInit ==
    /\ e_fs = {}
    /\ e_last = NoEnum

\* ----------------------- entry points and the CLI viewer's select command
\* An argument or a command token is a sequence of characters; "sup2" stands
\* for the superscript digit two, a character that str.isdigit accepts and
\* int rejects.
MaxArgLen == 3
MaxColumnArg == 10

Chars == {"1", "3", "-", "x", "X", "sup2"}
Strings == UNION {[1..n -> Chars] : n \in 0..MaxArgLen}

\* str.lower()
LowerStr(s) == [i \in 1..Len(s) |-> IF s[i] = "X" THEN "x" ELSE s[i]]

RECURSIVE Split(_, _)
\* str.split(sep)
Split(s, sep) ==
    IF \A i \in 1..Len(s) : s[i] # sep THEN <<s>>
    ELSE LET k == CHOOSE i \in 1..Len(s) : s[i] = sep /\ \A j \in 1..(i - 1) : s[j] # sep
         IN <<SubSeq(s, 1, k - 1)>> \o Split(SubSeq(s, k + 1, Len(s)), sep)

\* str.isdigit()
IsDigit(s) == s # << >> /\ \A i \in 1..Len(s) : s[i] \in {"1", "3", "sup2"}

\* int(s) returns (does not raise ValueError): an optional sign and decimal
\* digits
IntParses(s) ==
    LET d == IF s # << >> /\ s[1] = "-" THEN Tail(s) ELSE s
    IN d # << >> /\ \A i \in 1..Len(d) : d[i] \in {"1", "3"}

RECURSIVE IntValue(_)
\* int(s) for a string that parses
IntValue(s) ==
    IF s = << >> THEN 0
    ELSE IF s[1] = "-" THEN 0 - IntValue(Tail(s))
    ELSE IntValue(SubSeq(s, 1, Len(s) - 1)) * 10 + (IF s[Len(s)] = "1" THEN 1 ELSE 3)

\* cli.main, "Parse thumbnail size": the try block; ok is FALSE when it ends
\* in ValueError (a part that int rejects, or not exactly two parts to unpack)
ThumbnailSize(arg) ==
    LET l == LowerStr(arg)
        parts == Split(l, "x")
    IN IF \E i \in 1..Len(l) : l[i] = "x"
       THEN IF Len(parts) = 2 /\ IntParses(parts[1]) /\ IntParses(parts[2])
            THEN [ok |-> TRUE, width |-> IntValue(parts[1]), height |-> IntValue(parts[2])]
            ELSE [ok |-> FALSE, width |-> 0, height |-> 0]
       ELSE IF IntParses(l)
            THEN [ok |-> TRUE, width |-> IntValue(l), height |-> IntValue(l)]
            ELSE [ok |-> FALSE, width |-> 0, height |-> 0]

\* `if not 1 <= args.columns <= 8:`
ColumnsAny(c) == TRUE
ColumnsInRange(c) == 1 <= c /\ c <= 8

\* the --columns argument: an integer, or text that argparse's type=int rejects
ColumnArgs == [int : {TRUE}, v : (-1)..MaxColumnArg] \cup {[int |-> FALSE, v |-> 0]}

\* cli.main(thumb, cols) up to the creation of the viewer.  status is the exit
\* status of sys.exit (2 from argparse's own error), 0 while the process runs.
LocalMain(thumb, cols) ==
    LET size == ThumbnailSize(thumb)
        status == IF ~cols.int THEN 2
                  ELSE IF ~size.ok THEN 1
                  ELSE IF ~ColumnsInRange(cols.v) THEN 1
                  ELSE 0
    IN /\ x_last' = [op |-> "main", thumb |-> thumb, cols |-> cols, status |-> status,
                     viewer |-> status = 0,
                     size |-> IF status = 0 THEN <<size.width, size.height>> ELSE <<0, 0>>]

\* the body of parse_numbers' loop for one token: the numbers it contributes,
\* and whether an exception leaves parse_numbers
ParseToken(arg) ==
    IF (\E i \in 1..Len(arg) : arg[i] = "-")
        /\ IsDigit(SelectSeq(arg, LAMBDA ch : ch # "-"))
    THEN LET parts == Split(arg, "-")
         IN IF Len(parts) = 2 /\ IntParses(parts[1]) /\ IntParses(parts[2])
            THEN LET start == IntValue(parts[1])
                     end == IntValue(parts[2])
                 IN [numbers |-> [i \in 1..(end + 1 - start) |-> start + i - 1],
                     raised |-> FALSE]
            ELSE [numbers |-> << >>, raised |-> FALSE]
    ELSE IF IsDigit(arg)
    THEN IF IntParses(arg)
         THEN [numbers |-> <<IntValue(arg)>>, raised |-> FALSE]
         ELSE [numbers |-> << >>, raised |-> TRUE]
    ELSE [numbers |-> << >>, raised |-> FALSE]

RECURSIVE ParseNumbers(_)
\* CLIMediaViewer.parse_numbers(args)
ParseNumbers(args) ==
    IF args = << >> THEN [numbers |-> << >>, raised |-> FALSE]
    ELSE LET first == ParseToken(Head(args))
             rest == ParseNumbers(Tail(args))
         IN IF first.raised \/ rest.raised
            THEN [numbers |-> << >>, raised |-> TRUE]
            ELSE [numbers |-> first.numbers \o rest.numbers, raised |-> FALSE]

\* the argument lists of the 's' command: one token, or two one-character
\* tokens
TokenLists ==
    {<<t>> : t \in Strings \ {<< >>}} \cup {<<<<a>>, <<b>>>> : a \in Chars, b \in Chars}

\* run_interactive, command 's' with arguments:
\* `numbers = self.parse_numbers(args); self.select_files(numbers)`
CliCommandS(args) ==
    LET parsed == ParseNumbers(args)
    IN /\ cli_sel' = IF parsed.raised THEN cli_sel
                     ELSE SelectLoop(parsed.numbers, cli_files, cli_sel)
       /\ x_last' = [op |-> "s", args |-> args, numbers |-> parsed.numbers,
                     raised |-> parsed.raised, pre_sel |-> cli_sel]
       /\ cli_last' = CliNoOp
       /\ UNCHANGED <<cli_dir, cli_files, disk>>

\* remote.main: conn and dir say whether the two dialogs were answered, sshOk
\* whether the connection test's command succeeded.  created and removed are
\* the handlers whose scratch directory mkdtemp created and cleanup removed
\* when main is left; raised says that an exception leaves main.
RemoteMain(conn, dir, sshOk) ==
    x_last' =
        IF ~conn \/ dir = NoDir
        THEN [op |-> "remote_main", path |-> "cancelled", created |-> {}, removed |-> {},
              raised |-> FALSE]
        ELSE IF ~sshOk
        THEN [op |-> "remote_main", path |-> "ssh_failed", created |-> {"test_handler"},
              removed |-> {}, raised |-> FALSE]
        ELSE IF RefreshCallsLoad(dir)
        THEN [op |-> "remote_main", path |-> "load_raised",
              created |-> {"test_handler", "remote_handler"}, removed |-> {},
              raised |-> TRUE]
        ELSE [op |-> "remote_main", path |-> "viewer_exit",
              created |-> {"test_handler", "remote_handler"},
              removed |-> {"remote_handler"}, raised |-> FALSE]

EntryInit == x_last = [op |-> "none"]

\* ------------------------------------------- specification: local handler
\* the files of directory 1 may exist or not; no other file exists
InitLocal ==
    /\ disk \in SUBSET {f \in Files : f[1] = 1}
    /\ HandlerInit
    /\ RemoteInit
    /\ RemoteViewerInit
    /\ CliInit
    /\ GuiInit
    /\ PreloadInit
    /\ InfoInit
    /\ CloseInit
    /\ EnumInit
    /\ EntryInit

NextLocal ==
    \/ \E f \in Files : \E din \in DecodeInputs(f) :
            CreateThumbnail(f, din) /\ UNCHANGED <<newVars, rVars, rvVars, cliVars, guiVars>>
    \/ ClearCache /\ UNCHANGED <<newVars, rVars, rvVars, cliVars, guiVars>>

SpecLocal == InitLocal /\ [][NextLocal]_vars

\* ------------------------------------------ specification: remote handler
InitRemote ==
    /\ disk = {}
    /\ HandlerInit
    /\ RemoteInit
    /\ RemoteViewerInit
    /\ CliInit
    /\ GuiInit
    /\ PreloadInit
    /\ InfoInit
    /\ CloseInit
    /\ EnumInit
    /\ EntryInit

Outcomes == {"ok", "fail", "partial"}

NextRemote ==
    \/ \E c \in Callers : \E kind \in Kinds(c), f \in Files, o \in Outcomes :
            RemoteDownload(c, kind, f, o) /\ UNCHANGED <<newVars, rvVars, cliVars, guiVars>>
    \/ \E c \in Callers, ok \in BOOLEAN : RemoteProcess(c, ok) /\ UNCHANGED <<newVars, rvVars, cliVars, guiVars>>
    \/ \E c \in Callers : RemoteCleanupCheck(c) /\ UNCHANGED <<newVars, rvVars, cliVars, guiVars>>
    \/ \E c \in Callers : RemoteRemove(c) /\ UNCHANGED <<newVars, rvVars, cliVars, guiVars>>
    \/ \E f \in Files, o \in Outcomes : OpenFileExternally(f, o) /\ UNCHANGED <<newVars, rvVars, cliVars, guiVars>>

SpecRemote == InitRemote /\ [][NextRemote]_vars

\* ------------------------------- specification: remote viewer's directory load
InitRemoteLoad ==
    /\ disk = {}
    /\ HandlerInit
    /\ RemoteInit
    /\ RvVarsInit
    /\ remote_fs \in SUBSET Files
    /\ CliInit
    /\ GuiInit
    /\ PreloadInit
    /\ InfoInit
    /\ CloseInit
    /\ EnumInit
    /\ EntryInit

NextRemoteLoad ==
    \/ \E d \in {NoDir} \cup Dirs, sshOk \in BOOLEAN :
            RvLoadDirectory(d, sshOk) /\ UNCHANGED <<newVars, remote_fs, hVars, rVars, cliVars, guiVars>>
    \/ \E sshOk \in BOOLEAN : RvRecurse(sshOk) /\ UNCHANGED <<newVars, remote_fs, hVars, rVars, cliVars, guiVars>>
    \/ RvRecursionError /\ UNCHANGED <<newVars, remote_fs, hVars, rVars, cliVars, guiVars>>
    \/ \E sshOk \in BOOLEAN : RvToggleRecursive(sshOk) /\ UNCHANGED <<newVars, remote_fs, hVars, rVars, cliVars, guiVars>>
    \/ RvSelectAll /\ UNCHANGED <<pVars, iVars, tVars, eVars, xVars, remote_fs, hVars, rVars, cliVars, guiVars>>

SpecRemoteLoad == InitRemoteLoad /\ [][NextRemoteLoad]_vars

\* ------------------------------------------ specification: headless viewer
InitCli ==
    /\ disk = Files
    /\ HandlerInit
    /\ RemoteInit
    /\ RemoteViewerInit
    /\ CliInit
    /\ GuiInit
    /\ PreloadInit
    /\ InfoInit
    /\ CloseInit
    /\ EnumInit
    /\ EntryInit

MaxNumber == NumDirs * NumNames + 1
NumberLists == {<<a>> : a \in 0..MaxNumber} \cup {<<a, b>> : a \in 1..2, b \in 2..3}

NextCli ==
    \/ \E d \in Dirs \cup {NumDirs + 1}, rec \in BOOLEAN :
            CliLoadDirectory(d, rec) /\ UNCHANGED <<newVars, cache, decodes, h_ret, h_last, h_old, rVars, rvVars, guiVars>>
    \/ \E ns \in NumberLists :
            CliSelectFiles(ns) /\ UNCHANGED <<newVars, cache, decodes, h_ret, h_last, h_old, rVars, rvVars, guiVars>>
    \/ \E ns \in NumberLists :
            CliDeselectFiles(ns) /\ UNCHANGED <<newVars, cache, decodes, h_ret, h_last, h_old, rVars, rvVars, guiVars>>
    \/ CliSelectAll /\ UNCHANGED <<newVars, cache, decodes, h_ret, h_last, h_old, rVars, rvVars, guiVars>>
    \/ CliClear /\ UNCHANGED <<newVars, cache, decodes, h_ret, h_last, h_old, rVars, rvVars, guiVars>>
    \/ CliKeepSelected /\ UNCHANGED <<newVars, cache, decodes, h_ret, h_last, h_old, rVars, rvVars, guiVars>>
    \/ \E confirm \in BOOLEAN, locked \in SUBSET cli_sel :
            CliDeleteSelected(confirm, locked)
                /\ UNCHANGED <<newVars, cache, decodes, h_ret, h_last, h_old, rVars, rvVars, guiVars>>

SpecCli == InitCli /\ [][NextCli]_vars

\* ------------------------------------------------ specification: GUI viewer
InitGui ==
    /\ disk = {<<NumDirs, 1>>}
    /\ HandlerInit
    /\ RemoteInit
    /\ RemoteViewerInit
    /\ CliInit
    /\ GuiInit
    /\ PreloadInit
    /\ InfoInit
    /\ CloseInit
    /\ EnumInit
    /\ EntryInit

NextGui ==
    \/ \E d \in Dirs \cup {NumDirs + 1} : GuiLoadDirectory(d) /\ UNCHANGED <<newVars, rVars, rvVars, cliVars>>
    \/ GuiRefresh /\ UNCHANGED <<newVars, rVars, rvVars, cliVars>>
    \/ GuiToggleRecursive /\ UNCHANGED <<newVars, rVars, rvVars, cliVars>>
    \/ \E t \in DOMAIN g_loaders : LoaderList(t) /\ UNCHANGED <<newVars, rVars, rvVars, cliVars>>
    \/ \E t \in DOMAIN g_loaders : LoaderAssign(t) /\ UNCHANGED <<newVars, rVars, rvVars, cliVars>>
    \/ \E w \in DOMAIN g_workers, ok \in BOOLEAN : WorkerStep(w, ok) /\ UNCHANGED <<newVars, rVars, rvVars, cliVars>>
    \/ AfterPopulate /\ UNCHANGED <<newVars, rVars, rvVars, cliVars>>
    \/ \E ok \in BOOLEAN : AfterUpdateThumbnail(ok) /\ UNCHANGED <<newVars, rVars, rvVars, cliVars>>
    \/ \E f \in Files, b \in BOOLEAN : GuiToggleSelection(f, b) /\ UNCHANGED <<newVars, rVars, rvVars, cliVars>>
    \/ GuiSelectAll /\ UNCHANGED <<newVars, rVars, rvVars, cliVars>>
    \/ GuiClearSelection /\ UNCHANGED <<newVars, rVars, rvVars, cliVars>>
    \/ GuiKeepSelected /\ UNCHANGED <<newVars, rVars, rvVars, cliVars>>
    \/ \E confirm \in BOOLEAN, locked \in SUBSET g_sel :
            GuiDeleteSelected(confirm, locked) /\ UNCHANGED <<newVars, rVars, rvVars, cliVars>>

SpecGui == InitGui /\ [][NextGui]_vars

\* ------------------------------------------ specification: the pre-load
InitPreload ==
    /\ disk \in SUBSET {f \in Files : f[2] = 1}
    /\ HandlerInit
    /\ RemoteInit
    /\ RemoteViewerInit
    /\ CliInit
    /\ GuiInit
    /\ PreloadInit
    /\ InfoInit
    /\ CloseInit
    /\ EnumInit
    /\ EntryInit

NextPreload ==
    \/ \E list \in PreloadLists : PreloadStart(list) /\ UNCHANGED <<rVars, rvVars, cliVars, guiVars, iVars, sVars, tVars, eVars, xVars>>
    \/ PreloadWorker /\ UNCHANGED <<rVars, rvVars, cliVars, guiVars, iVars, sVars, tVars, eVars, xVars>>
    \/ \E f \in Files, ok \in BOOLEAN :
            PreloadUiFetch(f, ok) /\ UNCHANGED <<rVars, rvVars, cliVars, guiVars, iVars, sVars, tVars, eVars, xVars>>
    \/ PreloadSetStop /\ UNCHANGED <<rVars, rvVars, cliVars, guiVars, iVars, sVars, tVars, eVars, xVars>>

\* the worker thread is scheduled again and again while it has a step to take
SpecPreload ==
    /\ InitPreload
    /\ [][NextPreload]_vars
    /\ WF_vars(PreloadWorker /\ UNCHANGED <<rVars, rvVars, cliVars, guiVars, iVars, sVars, tVars, eVars, xVars>>)

\* ------------------------------------------- specification: get_media_info
\* any files may exist; other processes remove files while calls run
InitInfo ==
    /\ disk \in SUBSET Files
    /\ HandlerInit
    /\ RemoteInit
    /\ RemoteViewerInit
    /\ CliInit
    /\ GuiInit
    /\ PreloadInit
    /\ InfoInit
    /\ CloseInit
    /\ EnumInit
    /\ EntryInit

InfoRest == <<cache, decodes, h_ret, h_last, h_old, rVars, rvVars, cliVars, guiVars, pVars,
             sVars, tVars, eVars, xVars>>

NextInfo ==
    \/ \E f \in Files : InfoBegin(f) /\ UNCHANGED InfoRest
    \/ InfoSize /\ UNCHANGED InfoRest
    \/ \E opened \in BOOLEAN, raises \in BOOLEAN :
            InfoProbe(opened, raises) /\ UNCHANGED InfoRest
    \/ \E f \in Files : EnvRemove(f) /\ UNCHANGED InfoRest

SpecInfo == InitInfo /\ [][NextInfo]_vars

\* ------------------------------------- specification: remote session teardown
InitRemoteClose ==
    /\ disk = {}
    /\ HandlerInit
    /\ RemoteInit
    /\ RemoteViewerInit
    /\ CliInit
    /\ GuiInit
    /\ PreloadInit
    /\ InfoInit
    /\ CloseInit
    /\ EnumInit
    /\ EntryInit

CloseRest == <<pVars, iVars, sVars, eVars, xVars, rvVars, cliVars, guiVars>>

NextRemoteClose ==
    \/ \E f \in Files, o \in Outcomes : CloseWorkerDownload(f, o) /\ UNCHANGED CloseRest
    \/ \E ok \in BOOLEAN : RemoteProcess("worker", ok) /\ UNCHANGED <<tVars, CloseRest>>
    \/ RemoteCleanupCheck("worker") /\ UNCHANGED <<tVars, CloseRest>>
    \/ RemoteRemove("worker") /\ UNCHANGED <<tVars, CloseRest>>
    \/ \E f \in Files, o \in Outcomes : CloseOpenFile(f, o) /\ UNCHANGED CloseRest
    \/ CloseBegin /\ UNCHANGED <<hVars, r_reqs, r_pc, r_cur, r_last, CloseRest>>
    \/ \E p \in {TempDir} \X Names, ignores \in BOOLEAN :
            CloseUnlink(p, ignores) /\ UNCHANGED <<hVars, r_reqs, r_pc, r_cur, r_last, CloseRest>>
    \/ CloseRmdir /\ UNCHANGED <<hVars, r_reqs, r_pc, r_cur, r_last, CloseRest>>
    \/ CloseStop /\ UNCHANGED <<hVars, r_reqs, r_pc, r_cur, r_last, CloseRest>>

SpecRemoteClose == InitRemoteClose /\ [][NextRemoteClose]_vars

\* ------------------------------------------ specification: the enumerators
InitEnum ==
    /\ disk = {}
    /\ HandlerInit
    /\ RemoteInit
    /\ RemoteViewerInit
    /\ CliInit
    /\ GuiInit
    /\ PreloadInit
    /\ InfoInit
    /\ CloseInit
    /\ e_fs \in FileSystems
    /\ e_last = NoEnum
    /\ EntryInit

EnumRest == <<hVars, rVars, rvVars, cliVars, guiVars, pVars, iVars, sVars, tVars, xVars>>

NextEnum ==
    \/ \E recursive \in BOOLEAN : EnumLocal(recursive) /\ UNCHANGED EnumRest
    \/ \E recursive \in BOOLEAN, sshOk \in BOOLEAN, locale \in {"C", "en_US.UTF-8"} :
            EnumRemote(recursive, sshOk, locale) /\ UNCHANGED EnumRest

SpecEnum == InitEnum /\ [][NextEnum]_vars

\* --------------------------- specification: the GUI and the CLI viewer side by side
\* loading, selecting and keep-selected in both viewers over one directory
\* tree, the directory holding the files and a directory that does not exist
\* being asked for; the GUI's loader threads run, its pre-load workers are
\* not scheduled
InitViews ==
    /\ disk = {f \in Files : f[1] = NumDirs}
    /\ HandlerInit
    /\ RemoteInit
    /\ RemoteViewerInit
    /\ CliInit
    /\ GuiInit
    /\ PreloadInit
    /\ InfoInit
    /\ CloseInit
    /\ EnumInit
    /\ EntryInit

NextViews ==
    \/ \E d \in {NumDirs, NumDirs + 1} : GuiLoadDirectory(d) /\ UNCHANGED <<newVars, rVars, rvVars, cliVars>>
    \/ \E t \in DOMAIN g_loaders : LoaderList(t) /\ UNCHANGED <<newVars, rVars, rvVars, cliVars>>
    \/ \E t \in DOMAIN g_loaders : LoaderAssign(t) /\ UNCHANGED <<newVars, rVars, rvVars, cliVars>>
    \/ AfterPopulate /\ UNCHANGED <<newVars, rVars, rvVars, cliVars>>
    \/ \E f \in Files, b \in BOOLEAN : GuiToggleSelection(f, b) /\ UNCHANGED <<newVars, rVars, rvVars, cliVars>>
    \/ GuiKeepSelected /\ UNCHANGED <<newVars, rVars, rvVars, cliVars>>
    \/ \E d \in {NumDirs, NumDirs + 1}, rec \in BOOLEAN :
            CliLoadDirectory(d, rec) /\ UNCHANGED <<newVars, cache, decodes, h_ret, h_last, h_old, rVars, rvVars, guiVars>>
    \/ \E n \in 1..NumNames :
            CliSelectFiles(<<n>>) /\ UNCHANGED <<newVars, cache, decodes, h_ret, h_last, h_old, rVars, rvVars, guiVars>>
    \/ CliKeepSelected /\ UNCHANGED <<newVars, cache, decodes, h_ret, h_last, h_old, rVars, rvVars, guiVars>>

SpecViews == InitViews /\ [][NextViews]_vars

\* ------------------------- specification: entry points and the select command
InitEntry ==
    /\ disk = {f \in Files : f[1] = 1}
    /\ HandlerInit
    /\ RemoteInit
    /\ RemoteViewerInit
    /\ CliInit
    /\ GuiInit
    /\ PreloadInit
    /\ InfoInit
    /\ CloseInit
    /\ EnumInit
    /\ EntryInit

\* A process runs one entry point, once: main() of the GUI or of the remote
\* viewer starts from a fresh process, the interactive loop of the CLI viewer
\* takes its commands one after the other.
NextEntry ==
    \/ \E thumb \in Strings, cols \in ColumnArgs :
            /\ x_last.op = "none" /\ cli_dir = NoDir
            /\ LocalMain(thumb, cols)
            /\ UNCHANGED <<hVars, rVars, rvVars, cliVars, guiVars, pVars, iVars, sVars, tVars, eVars>>
    \/ \E conn \in BOOLEAN, dir \in {NoDir} \cup Dirs, sshOk \in BOOLEAN :
            /\ x_last.op = "none" /\ cli_dir = NoDir
            /\ RemoteMain(conn, dir, sshOk)
            /\ UNCHANGED <<hVars, rVars, rvVars, cliVars, guiVars, pVars, iVars, sVars, tVars, eVars>>
    \/ \E rec \in BOOLEAN :
            /\ x_last.op \in {"none", "s"}
            /\ CliLoadDirectory(1, rec)
            /\ UNCHANGED <<newVars, cache, decodes, h_ret, h_last, h_old, rVars, rvVars, guiVars>>
    \/ \E args \in TokenLists :
            /\ x_last.op \in {"none", "s"}
            /\ CliCommandS(args)
            /\ UNCHANGED <<cache, decodes, h_ret, h_last, h_old, rVars, rvVars, guiVars, pVars, iVars, sVars, tVars, eVars>>

SpecEntry == InitEntry /\ [][NextEntry]_vars

\* ------------------------------------------------------------------ claims

\* C1 (as stated): for every file identifier F, a second create_thumbnail(F)
\* with no clear_cache in between returns the same object as the first call
\* and does not invoke the decoder.
C1_SecondFetchNeverDecodes ==
    (h_last.op = "create_thumbnail" /\ h_last.prev # NotCalled)
        => (h_last.result = h_last.prev /\ ~h_last.decoded)

\* C1 (amended): when the earlier create_thumbnail(F) returned a thumbnail,
\* a later create_thumbnail(F) with no clear_cache in between returns that
\* identical object and does not invoke the decoder.
C1_CachedFetchIsReused ==
    (h_last.op = "create_thumbnail" /\ h_last.prev # NotCalled /\ h_last.prev # None)
        => (h_last.result = h_last.prev /\ ~h_last.decoded)

\* C1 witness: a second create_thumbnail(F) after other decodes returned the
\* object the first call cached
C1_Witness ==
    /\ h_last.op = "create_thumbnail"
    /\ h_last.prev # NotCalled /\ h_last.prev # None
    /\ h_last.result = h_last.prev
    /\ decodes >= 2

\* C2: every cache entry is keyed by the identifier that was requested, so a
\* fetch for identifier F (local or remote) that returns a thumbnail returns
\* one computed from F's own file; identifiers with the same base name in
\* different directories do not share an entry.
C2_FetchReturnsOwnThumbnail ==
    /\ (h_last.op = "create_thumbnail" /\ h_last.result # None)
            => h_last.result.src = h_last.f
    /\ \A c \in Callers :
            (r_last[c].kind = "thumb" /\ r_last[c].thumb # None /\ r_last[c].thumb # NotCalled)
                => r_last[c].thumb.src = r_last[c].f

\* C3: in every reachable state of the GUI viewer and of the headless viewer,
\* the states between a load request and the end of its background listing
\* included, every identifier in selected_files is in media_files.
C3_SelectionWithinFileList ==
    /\ g_sel \subseteq SeqToSet(g_files)
    /\ cli_sel \subseteq SeqToSet(cli_files)

\* C4: a confirmed delete_selected of the headless viewer attempts every
\* selected file, reports M deleted of N (M the selected files that can be
\* removed, N the selected files), removes exactly those M from media_files
\* and from selected_files, and leaves the failed ones listed and selected.
C4_CliDeleteRemovesExactlyDeleted ==
    cli_last.op = "delete" =>
        /\ cli_last.count = Cardinality(cli_last.pre_sel)
        /\ cli_last.deleted = Cardinality(cli_last.removable)
        /\ disk = cli_last.pre_disk \ cli_last.removable
        /\ cli_files = SeqFilter(cli_last.pre_files, Files \ cli_last.removable)
        /\ cli_sel = cli_last.pre_sel \ cli_last.removable

\* C5: a confirmed _delete_selected of the GUI viewer reports M deleted of N
\* (N the selected files, M those that can be removed), and once the refresh
\* it triggers has completed the N-M files whose deletion failed are still
\* listed and still selected, the other M being neither.
C5_GuiDeleteKeepsFailedSelected ==
    (g_last.op = "delete" /\ g_loaders = << >> /\ g_after = << >>) =>
        /\ g_last.count = Cardinality(g_last.pre_sel)
        /\ g_last.deleted = Cardinality(g_last.removable)
        /\ (g_last.pre_sel \ g_last.removable) \subseteq SeqToSet(g_files)
        /\ g_sel = g_last.pre_sel \ g_last.removable

\* C6: the scratch directory is empty whenever no remote request is in
\* flight, and it never holds more than one file.
C6_ScratchEmptyWhenIdle ==
    /\ (\A c \in Callers : r_pc[c] = "idle") => DOMAIN scratch = {}
    /\ Cardinality(DOMAIN scratch) <= 1

\* C7: a remote create_thumbnail or get_media_info whose transfer failed
\* returns a null/absent result and leaves no file of that request in the
\* scratch directory.
C7_FailedTransferLeavesNothing ==
    \A c \in Callers :
        (r_last[c].kind \in {"thumb", "info"} /\ r_last[c].dl = "failed")
            => /\ ~r_last[c].residue
               /\ r_last[c].kind = "thumb" => r_last[c].thumb = None
               /\ r_last[c].kind = "info" => ~r_last[c].info.found

\* C8: when a remote create_thumbnail or get_media_info whose download
\* succeeded returns (with a result, with nothing, or by raising), the scratch
\* copy made for it is gone; every whole scratch file such a request wrote
\* belongs to a request still in flight, so none accumulate.
C8_ScratchCopyRemovedOnReturn ==
    /\ \A c \in Callers :
            (r_last[c].kind \in {"thumb", "info"} /\ r_last[c].dl = "ok")
                => ~r_last[c].residue
    /\ \A p \in DOMAIN scratch :
            (scratch[p].kind \in {"thumb", "info"} /\ ~scratch[p].partial)
                => \E c \in Callers : r_pc[c] # "idle" /\ r_cur[c].req = scratch[p].req

\* C8 witness: both threads have returned from requests whose download
\* succeeded, one with a result and one with nothing, and nothing is in flight
C8_Witness ==
    /\ r_last["ui"].kind = "info" /\ r_last["ui"].dl = "ok" /\ r_last["ui"].info.found
    /\ r_last["worker"].kind = "thumb" /\ r_last["worker"].dl = "ok"
    /\ r_last["worker"].thumb = None
    /\ r_reqs = MaxRequests
    /\ \A c \in Callers : r_pc[c] = "idle"

\* C9: RemoteMediaViewer.load_directory(directory) returns after issuing one
\* remote listing, with media_files equal to what that listing returned.
C9_LoadIssuesOneListingAndReturns ==
    /\ rv_listings <= 1
    /\ rv_pc # "raised"
    /\ rv_pc = "returned" => rv_files = rv_first

\* C10: at every moment of a GUI session at most one directory-loading thread
\* and at most one thumbnail pre-loading thread are active.
C10_AtMostOneThreadOfEachKind ==
    /\ Len(g_loaders) <= 1
    /\ Len(g_workers) <= 1

\* C11: a pre-load that is not cancelled goes through its list in order on
\* its one worker, decodes only entries that are missing from the cache, and
\* calls back exactly once after each entry, with (i, n, identifier_i) for
\* i = 1..n in increasing order, entries already cached or failing to decode
\* included; once started it gets through the whole list.
C11_CallbackOncePerEntryInOrder ==
    /\ [](/\ Len(p_calls) = p_i
          /\ \A k \in 1..Len(p_calls) : p_calls[k] = <<k, Len(p_list), p_list[k]>>
          /\ \A k \in 1..Len(p_work) :
                /\ p_work[k].decoded => p_work[k].missing
                /\ k > 1 => p_work[k - 1].i < p_work[k].i
          /\ (p_pc = "done" /\ ~p_stop) => p_i = Len(p_list))
    /\ (p_pc = "loop") ~> (p_stop \/ (p_pc = "done" /\ p_i = Len(p_list)))

\* C11 witness: an uncancelled pre-load of a full list has ended, one entry
\* was found cached and one decode failed
C11_Witness ==
    /\ p_pc = "done" /\ ~p_stop
    /\ Len(p_calls) = MaxList
    /\ Len(p_work) < MaxList
    /\ \E k \in 1..Len(p_work) : p_work[k].none

\* C12: once stop_loading is set the worker finishes at most the entry it
\* was working on, starts no thumbnail computation and makes no callback for
\* a later entry, and terminates.
C12_StopEndsWorkerAfterCurrentEntry ==
    /\ [](p_mark.set =>
            LET last == p_mark.i + (IF p_mark.busy THEN 1 ELSE 0)
            IN /\ Len(p_calls) <= last
               /\ \A k \in 1..Len(p_work) : p_work[k].i <= last)
    /\ (p_stop /\ p_pc # "idle") ~> (p_pc = "done")

\* C12 witness: the flag was set during an entry that was not the last one;
\* the worker finished that entry and ended
C12_Witness ==
    /\ p_mark.set /\ p_mark.busy
    /\ p_pc = "done"
    /\ p_i = p_mark.i + 1
    /\ p_i < Len(p_list)

\* C13: when the decode of a file fails at any stage (the handle does not
\* open, the frame read fails, or the decoder raises), create_thumbnail
\* returns None, raises nothing to its caller, and leaves the cache without an
\* entry for that identifier and otherwise unchanged.
C13_FailedDecodeReturnsNoneCachesNothing ==
    (h_last.op = "create_thumbnail" /\ h_last.failed)
        => /\ h_last.result = None
           /\ ~h_last.raised
           /\ h_last.f \notin DOMAIN cache
           /\ cache = h_last.pre

\* C13 witness: a video whose handle opened failed to decode while the cache
\* held another file's thumbnail
C13_Witness ==
    /\ h_last.op = "create_thumbnail"
    /\ h_last.failed /\ h_last.seeks
    /\ h_last.result = None
    /\ h_last.pre # << >>

\* C14 (as stated): after clear_cache the cache is empty, and the next fetch
\* of any previously cached identifier invokes the decoder again and stores a
\* fresh entry.
C14_ClearThenFetchStoresFreshEntry ==
    /\ (h_last.op = "clear_cache") => (cache = << >>)
    /\ (h_last.op = "create_thumbnail" /\ h_old[h_last.f] # NotCalled
           /\ h_last.prev = NotCalled)
        => /\ h_last.decoded
           /\ h_last.f \in DOMAIN cache
           /\ cache[h_last.f] # h_old[h_last.f]

\* C14 (amended): after clear_cache the cache is empty, and the next fetch of
\* any previously cached identifier invokes the decoder again; when that
\* decode succeeds it stores and returns a fresh entry, and when it fails the
\* identifier stays without an entry.
C14_ClearThenFetchDecodesAgain ==
    /\ (h_last.op = "clear_cache") => (cache = << >>)
    /\ (h_last.op = "create_thumbnail" /\ h_old[h_last.f] # NotCalled
           /\ h_last.prev = NotCalled)
        => /\ h_last.decoded
           /\ IF h_last.failed
              THEN h_last.f \notin DOMAIN cache
              ELSE /\ h_last.f \in DOMAIN cache
                   /\ cache[h_last.f] = h_last.result
                   /\ h_last.result # None
                   /\ h_last.result # h_old[h_last.f]

\* C14 witness: the first fetch after clear_cache of an identifier the cache
\* held decoded again and stored a new thumbnail
C14_Witness ==
    /\ h_last.op = "create_thumbnail"
    /\ h_old[h_last.f] # NotCalled /\ h_last.prev = NotCalled
    /\ h_last.decoded /\ ~h_last.failed
    /\ h_last.f \in DOMAIN cache
    /\ cache[h_last.f] # h_old[h_last.f]

C17_InfoNeverRaises ==
    (i_last.op = "get_media_info") => ~i_last.raised

\* C18: for a video file whose decoder handle fails to open, get_media_info
\* returns (without raising) a record that carries an error field.
C18_UnopenedVideoCarriesError ==
    (i_last.op = "get_media_info" /\ i_last.probed /\ IsVideoFile(i_last.f)
        /\ ~i_last.opened)
        => (~i_last.raised /\ i_last.error # "")

\* C19: every directory load or reload, in the local GUI viewer, the remote
\* GUI viewer and the headless CLI viewer, leaves the selection set empty.
C19_LoadLeavesSelectionEmpty ==
    /\ (g_last.op = "load") => (g_sel = {})
    /\ (rv_pc \in {"returned", "raised"}) => (rv_sel = {})
    /\ (cli_last.op = "load") => (cli_sel = {})

\* C20: after RemoteMediaViewer.close the session's scratch directory and
\* everything under it no longer exist, and no later step of a still-running
\* background worker leaves a file there.
C20_NothingLeftAfterClose ==
    (t_pc \in {"closed", "raised"}) => (~t_dir /\ scratch = << >>)

\* C16: for every directory D and either value of the recursive flag, the
\* enumerator's output (of a listing that ran) is a strictly increasing
\* sequence in the order of the identifiers' characters, with no duplicates,
\* and it contains exactly the files under D (depth 1 unless recursive) whose
\* extension, compared case-insensitively, is in the allow-list.
C16_EnumeratorSortedUniqueExact ==
    e_last.ran =>
        LET out == e_last.out
        IN /\ \A i, j \in 1..Len(out) :
                  i < j => CodePointOrder[out[i]] < CodePointOrder[out[j]]
           /\ {out[i] : i \in 1..Len(out)}
                  = {x.path : x \in {y \in e_fs : /\ y.kind = "file"
                                                 /\ (e_last.recursive \/ ~y.path.sub)
                                                 /\ Lower(y.path.ext) \in AllowList}}

\* C21: load_directory on a directory that does not exist, in the local GUI
\* viewer and in the CLI viewer, reports the error and aborts:
\* current_directory, media_files and selected_files are unchanged and no
\* background load is started.
C21_MissingDirectoryLoadChangesNothing ==
    [][/\ GuiLoadDirectory(NumDirs + 1)
            => (UNCHANGED <<g_dir, g_files, g_sel, g_loaders>> /\ g_last'.op = "load_missing")
       /\ \A rec \in BOOLEAN :
            CliLoadDirectory(NumDirs + 1, rec)
                => (UNCHANGED <<cli_dir, cli_files, cli_sel>> /\ cli_last'.op = "load_missing")]_vars

\* C21 witness: both viewers, each with a directory loaded and a file
\* selected, were asked for a directory that does not exist
C21_Witness ==
    /\ g_last.op = "load_missing" /\ g_dir # NoDir /\ g_files # << >> /\ g_sel # {}
    /\ cli_last.op = "load_missing" /\ cli_dir # NoDir /\ cli_files # << >> /\ cli_sel # {}

\* C27: keep-selected with a non-empty selection replaces media_files with
\* exactly its selected members in their original relative order and then
\* empties the selection; with an empty selection it changes neither
\* media_files nor the selection (GUI and CLI alike).
C27_KeepSelectedFiltersInOrder ==
    [][LET Pos(q, x) == CHOOSE k \in 1..Len(q) : q[k] = x
           Kept(old, new, sel) ==
               /\ SeqToSet(new) = SeqToSet(old) \cap sel
               /\ \A i, j \in 1..Len(new) : i < j => Pos(old, new[i]) < Pos(old, new[j])
       IN /\ GuiKeepSelected
               => IF g_sel = {} THEN UNCHANGED <<g_files, g_sel>>
                  ELSE Kept(g_files, g_files', g_sel) /\ g_sel' = {}
          /\ CliKeepSelected
               => IF cli_sel = {} THEN UNCHANGED <<cli_files, cli_sel>>
                  ELSE Kept(cli_files, cli_files', cli_sel) /\ cli_sel' = {}]_vars

\* C27 witness: in both viewers keep-selected ran on two files with one of
\* them selected
C27_Witness ==
    /\ g_last.op = "keep" /\ Len(g_last.pre_files) = 2 /\ g_last.pre_sel # {}
    /\ Len(g_files) = 1 /\ g_sel = {}
    /\ cli_last.op = "keep" /\ Len(cli_last.pre_files) = 2 /\ cli_last.pre_sel # {}
    /\ Len(cli_files) = 1 /\ cli_sel = {}

\* C28: changing the grid column count to a value in 1..8 changes only the
\* layout: selected_files and media_files are the same after the change as
\* before it.
C28_ColumnChangeKeepsSelectionAndFiles ==
    [][GuiRefresh => (g_sel' = g_sel /\ g_files' = g_files)]_vars

\* C25: when every directory load that was started in the GUI viewer has
\* finished, media_files equals the enumeration of current_directory (the
\* most recently requested directory) and the grid has been populated exactly
\* once from that list, whatever the order in which overlapping background
\* load threads finish.
C25_FinishedLoadsShowCurrentDirectory ==
    (g_last.op = "load" /\ g_loaders = << >> /\ g_after = << >>)
        => /\ g_files = LocalListing(g_dir, g_recursive)
           /\ g_grid = g_files

\* C22: for every command-line input of the local GUI entry point, a viewer
\* is created only if the column count is within 1..8 and the thumbnail
\* argument is either WIDTHxHEIGHT with two integers or a single integer; an
\* invalid thumbnail format or an out-of-range column count makes the process
\* exit with a non-zero status before any viewer is created.
C22_ViewerOnlyForValidArguments ==
    (x_last.op = "main") =>
        LET t == x_last.thumb
            wellFormed ==
                \/ IntParses(t)
                \/ \E k \in 1..Len(t) :
                      /\ t[k] \in {"x", "X"}
                      /\ IntParses(SubSeq(t, 1, k - 1))
                      /\ IntParses(SubSeq(t, k + 1, Len(t)))
            inRange == x_last.cols.int /\ x_last.cols.v \in 1..8
        IN /\ x_last.viewer => (wellFormed /\ inRange)
           /\ (~wellFormed \/ ~inRange) => (~x_last.viewer /\ x_last.status # 0)

\* C22 witness: a viewer was created for "3x1" and 8 columns
C22_Witness ==
    /\ x_last.op = "main"
    /\ x_last.thumb = <<"3", "x", "1">>
    /\ x_last.cols = [int |-> TRUE, v |-> 8]
    /\ x_last.viewer /\ x_last.size = <<3, 1>>

\* C23: parse_numbers never raises, and select_files adds exactly the
\* identifiers at the returned positions that lie within 1..len(media_files)
\* and nothing else.
C23_ParseNumbersNeverRaises ==
    (x_last.op = "s") =>
        /\ ~x_last.raised
        /\ cli_sel = x_last.pre_sel
                \cup {cli_files[n] : n \in SeqToSet(x_last.numbers) \cap (1..Len(cli_files))}

\* C30: when the remote entry point main() returns, on every path (cancelled
\* dialogs, failed SSH connection test, normal viewer exit), every scratch
\* directory created by a RemoteMediaHandler during that run has been removed.
C30_MainRemovesEveryScratchDirectory ==
    (x_last.op = "remote_main") => (x_last.created \subseteq x_last.removed)

\* C29: for every video with frame_count >= 1, the seek target computed by
\* _create_video_thumbnail is a valid zero-based frame index (target <
\* frame_count), so there is a frame to read at the target.
C29_SeekTargetIsValidFrameIndex ==
    (h_last.op = "create_thumbnail" /\ h_last.seeks /\ h_last.fc >= 1)
        => h_last.target < h_last.fc

\* C24: when the pre-load worker and the UI thread both call
\* create_thumbnail, each identifier is decoded at most once between cache
\* clears and every fetch of that identifier returns the same object: the
\* unlocked check-then-store never produces two different thumbnail objects
\* for one identifier.
C24_OneDecodeAndOneObjectPerIdentifier ==
    \A a \in p_got : \A b \in p_got :
        (a.f = b.f) =>
            /\ a.thumb = b.thumb
            /\ (a.n # 0 /\ b.n # 0) => a.n = b.n

\* C26: for the remote handler, an identifier whose thumbnail is already in
\* the cache is not downloaded again by a later create_thumbnail or by the
\* pre-load loop until the cache is cleared: a cache hit performs no file
\* transfer.
C26_CacheHitTransfersNothing ==
    [][\A c \in Callers :
          (/\ r_pc[c] = "idle"
           /\ r_reqs' = r_reqs + 1
           /\ r_cur'[c].kind = "thumb"
           /\ CacheHit(cache, LocalPath(r_cur'[c].f)))
              => scratch' = scratch]_vars
====
